---- MODULE Spec2Model ----
(***************************************************************************)
(* The frame visualization pipeline of video_processor (src/visualizer):   *)
(* DataVisualizer.process_data drives FrameVisualizer.process_batch chunk  *)
(* by chunk and hands every batch to OutputManager.save_frames.            *)
(*                                                                         *)
(* A frame is modelled by one pixel: numpy applies the mask blend to every *)
(* pixel independently.  Drawing calls (cv2.line, cv2.circle, cv2.putText) *)
(* are recorded on the frame as the list of shapes drawn.                  *)
(***************************************************************************)
EXTENDS Integers, Sequences, FiniteSets, TLC

VARIABLES
    config_file,       \* the content of the configuration file
    config,            \* ConfigLoader.config: the loaded JSON object
    original,          \* the frames of originals_path (grayscale)
    mask,              \* the frames of segmentation_masks_path
    frame_width,       \* the width of every frame of originals_path
    mask_width,        \* the width of every frame of segmentation_masks_path
    traj_file,         \* the trajectory CSV
    label_files,       \* the cell label CSVs, by label name
    text_width,        \* the width cv2.getTextSize gives the scale label
    pc,                \* position of the program
    mask_colors,       \* FrameVisualizer.mask_colors
    alpha,             \* FrameVisualizer.alpha
    output_frequency,  \* FrameVisualizer.output_frequency
    track_id_color,    \* CellTrackingDrawer.track_id_color
    trajectories,      \* CellTrackingDrawer.trajectories
    cell_labels,       \* CellTrackingDrawer.cell_labels
    metadata,          \* MetaDataDrawer fields
    chunk_size,        \* DataVisualizer.chunk_size
    as_tiff,           \* OutputManager.as_tiff
    width,             \* DataVisualizer.width
    next_start,        \* next value of range(0, num_frames, chunk_size)
    start_frame,       \* process_data: start_frame
    end_frame,         \* process_data: end_frame
    frames,            \* process_data: frames (the batch handed to the sink)
    i,                 \* process_batch: i
    combined_frames,   \* process_batch: combined_frames
    processed_frame,   \* process_batch: the frame being composited
    avi_pos,           \* _save_avi_chunk: frames written to the open writer
    files,             \* the output files, in the order they were opened
    handoffs,          \* the calls of save_frames so far
    printed            \* the "Processing frame i" messages printed

vars == <<config_file, config, original, mask, frame_width, mask_width, traj_file,
          label_files, text_width, pc,
          mask_colors, alpha, output_frequency, track_id_color, trajectories,
          cell_labels, metadata, chunk_size,
          as_tiff, width, next_start, start_frame, end_frame, frames, i,
          combined_frames, processed_frame, avi_pos, files, handoffs, printed>>

data_files == <<original, mask, frame_width, mask_width, traj_file,
                label_files, text_width>>

\* what no step changes once the configuration is loaded
inputs == <<config_file, config, data_files>>

fields == <<mask_colors, alpha, output_frequency, track_id_color, trajectories,
            cell_labels, metadata,
            chunk_size, as_tiff, width>>

-----------------------------------------------------------------------------
(* Bounds of the model *)

MaxFrames == 4

MaxChunk == 3

MaxRows == 2

MaxTracks == 2

MaxTrajFrame == 2

-----------------------------------------------------------------------------
(* JSON values and Python truthiness *)

JNull == [t |-> "null"]

JNum(n, d) == [t |-> "num", num |-> n, den |-> d]

JInt(n) == JNum(n, 1)

JBool(b) == [t |-> "bool", b |-> b]

JArr(s) == [t |-> "arr", v |-> s]

JObj(f) == [t |-> "obj", v |-> f]

\* bool(v) of Python, as used by "x if x else default"
Truthy(v) ==
    CASE v.t = "null" -> FALSE
      [] v.t = "num"  -> v.num # 0
      [] v.t = "bool" -> v.b
      [] v.t = "arr"  -> Len(v.v) > 0
      [] v.t = "obj"  -> DOMAIN v.v # {}

\* a file that does not hold JSON: json.load raises JSONDecodeError
JText(s) == [t |-> "text", v |-> s]

\* json.load(f) raises
JsonRaises(file) == file.t = "text"

\* json.load(f) of a file that holds a JSON object: the dict
JsonLoad(file) == file.v

\* Get with a falsy value taken as a missing key
Get_Falsy(key, default) ==
    IF key \in DOMAIN config /\ Truthy(config[key])
    THEN config[key] ELSE default

\* ConfigLoader.get(key, default)
Get(key, default) ==
    IF key \in DOMAIN config THEN config[key] ELSE default

\* a JSON object from optional members: o[k] is <<>> (absent) or <<value>>
MkConfig(o) == [k \in {m \in DOMAIN o : o[m] # <<>>} |-> o[k][1]]

-----------------------------------------------------------------------------
(* Program constants *)

DEFAULT_CHUNK_SIZE == 1000

DEFAULT_OUTPUT_FREQUENCY == 100

DEFAULT_ALPHA == JNum(3, 10)

-----------------------------------------------------------------------------
(* Sequences *)

Range(s) == {s[k] : k \in DOMAIN s}

Min(a, b) == IF a < b THEN a ELSE b

\* the sequences over S of length at most n
SeqUpTo(S, n) == UNION {[1..k -> S] : k \in 0..n}

\* the orders in which an n-element list can be rearranged
Perms(n) == {p \in [1..n -> 1..n] : \A a, b \in 1..n : a # b => p[a] # p[b]}

RECURSIVE Unique(_)
\* pandas Series.unique(): the distinct values in order of first appearance
Unique(s) ==
    IF s = <<>> THEN <<>>
    ELSE LET r == Unique(SubSeq(s, 1, Len(s) - 1))
         IN  IF s[Len(s)] \in Range(r) THEN r ELSE Append(r, s[Len(s)])

MaxOf(S) == CHOOSE m \in S : \A x \in S : x <= m

-----------------------------------------------------------------------------
(* CellTrackingDrawer._generate_trajectories *)

\* trajectory_data['data'][trajectory_data['data']['track_id'] == track_id]
TrackRows(rows, track_id) == SelectSeq(rows, LAMBDA r : r.track_id = track_id)

\* SortValues with the rows left in any order
SortValues_Unsorted(rows) ==
    {[k \in 1..Len(rows) |-> rows[p[k]]] : p \in Perms(Len(rows))}

\* DataFrame.sort_values('frame_y'): ascending in frame_y; the default sort
\* kind is not stable, so rows of equal frame_y may come out in any order
SortValues(rows) ==
    {s \in {[k \in 1..Len(rows) |-> rows[p[k]]] : p \in Perms(Len(rows))} :
        \A a, b \in 1..Len(s) : a < b => s[a].frame_y <= s[b].frame_y}

\* the entries trajectories[track_id] can get
TrackInfos(rows, color, track_id) ==
    {[track_id  |-> track_id,
      max_frame |-> MaxOf({r.frame_y : r \in Range(TrackRows(rows, track_id))}),
      points    |-> [k \in 1..Len(s) |-> <<s[k].frame_y, s[k].x, s[k].y>>],
      color     |-> color] : s \in SortValues(TrackRows(rows, track_id))}

\* the dicts _generate_trajectories can return, as lists in insertion order
GenerateTrajectories(rows, color) ==
    LET ids == Unique([k \in 1..Len(rows) |-> rows[k].track_id])
    IN  {tr \in [1..Len(ids) ->
                    UNION {TrackInfos(rows, color, id) : id \in Range(ids)}] :
            \A j \in 1..Len(ids) : tr[j] \in TrackInfos(rows, color, ids[j])}

-----------------------------------------------------------------------------
(* FrameVisualizer._convert_to_rgb and _add_mask_to_frame *)

\* a frame is the list of the channels of its pixel: <<g>> is grayscale
ConvertToRgb(frame) ==
    IF Len(frame) = 1 THEN <<frame[1], frame[1], frame[1]>> ELSE frame

\* int(class_id) of a key of the mask_colors JSON object
IntOfKey(k) == CASE k = "0" -> 0 [] k = "1" -> 1 [] k = "2" -> 2

\* the local array mask_colors: zeros, then the colour of the pixel's class
MaskColorArray(frame, mask_frame) ==
    LET keys == {k \in DOMAIN mask_colors : IntOfKey(k) = mask_frame}
    IN  IF keys = {} THEN [c \in 1..Len(frame) |-> 0]
        ELSE mask_colors[CHOOSE k \in keys : TRUE]

\* alpha is held exactly by a double iff its denominator is a power of two
ExactAlpha(a) == a.den \in {1, 2, 4}

\* BlendValues with every pixel darkened by alpha, coloured or not
BlendValues_Wash(f, m, a) ==
    LET num == f * (a.den - a.num) + m * a.num
        q   == num \div a.den
    IN  IF ExactAlpha(a) \/ num % a.den # 0 \/ q = 0
        THEN {q % 256}
        ELSE {q % 256, (q - 1) % 256}

\* np.uint8(f * (1 - alpha * (m > 0)) + m * alpha) for one channel.  The sum
\* is computed in doubles and the cast truncates it.  It is exact when a
\* double holds alpha exactly, and when m = 0 (f * 1.0 + 0.0); otherwise a
\* sum whose exact value is a whole number q may come out just below q and
\* be truncated to q - 1.
BlendValues(f, m, a) ==
    LET ind == IF m > 0 THEN 1 ELSE 0
        num == f * (a.den - a.num * ind) + m * a.num
        q   == num \div a.den
    IN  IF ExactAlpha(a) \/ m = 0 \/ num % a.den # 0 \/ q = 0
        THEN {q % 256}
        ELSE {q % 256, (q - 1) % 256}

\* the frames _add_mask_to_frame can return
AddMaskToFrame(frame, mask_frame) ==
    LET mc == MaskColorArray(frame, mask_frame)
    IN  {<<r, g, b>> : r \in BlendValues(frame[1], mc[1], alpha),
                       g \in BlendValues(frame[2], mc[2], alpha),
                       b \in BlendValues(frame[3], mc[3], alpha)}

-----------------------------------------------------------------------------
(* CellTrackingDrawer: drawing *)

TEXT_OFFSET_X == 5

TEXT_OFFSET_Y == -5

\* the frame as process_batch starts to draw on it
NewFrame(idx, rgb) ==
    [src |-> idx, px |-> rgb, stages |-> <<"rgb">>, calls |-> <<>>,
     lines |-> <<>>, markers |-> <<>>, texts |-> <<>>, time |-> <<>>,
     scale |-> <<>>]

\* PointsToDraw with the point of the current frame left out
PointsToDraw_Before(info, current_frame_idx) ==
    LET sel == SelectSeq(info.points, LAMBDA p : p[1] < current_frame_idx)
    IN  [k \in 1..Len(sel) |-> <<sel[k][2], sel[k][3]>>]

\* the list comprehension of draw_cell_tracking
PointsToDraw(info, current_frame_idx) ==
    LET sel == SelectSeq(info.points, LAMBDA p : p[1] <= current_frame_idx)
    IN  [k \in 1..Len(sel) |-> <<sel[k][2], sel[k][3]>>]

\* DrawTrajectory with the loop ending one segment early
DrawTrajectory_SkipLast(fr, points_to_draw, color) ==
    IF Len(points_to_draw) > 1
    THEN [fr EXCEPT !.lines = @ \o
            [k \in 1..(Len(points_to_draw) - 2) |->
                [from  |-> points_to_draw[k],
                 to    |-> points_to_draw[k + 1],
                 color |-> color]]]
    ELSE fr

\* _draw_trajectory: one cv2.line per pair of consecutive points
DrawTrajectory(fr, points_to_draw, color) ==
    IF Len(points_to_draw) > 1
    THEN [fr EXCEPT !.lines = @ \o
            [k \in 1..(Len(points_to_draw) - 1) |->
                [from  |-> points_to_draw[k],
                 to    |-> points_to_draw[k + 1],
                 color |-> color]]]
    ELSE fr

RECURSIVE DrawTrajectories_NoSuppress(_, _, _)
\* DrawTrajectories without the max_frame test: a track stays drawn
DrawTrajectories_NoSuppress(fr, current_frame_idx, k) ==
    IF k > Len(trajectories) THEN fr
    ELSE LET info == trajectories[k]
             pts  == PointsToDraw(info, current_frame_idx)
         IN  DrawTrajectories_NoSuppress(
                DrawTrajectory(
                    [fr EXCEPT !.calls = Append(@,
                        [track_id |-> info.track_id, points |-> pts])],
                    pts, info.color),
                current_frame_idx, k + 1)

RECURSIVE DrawTrajectories(_, _, _)
\* the first loop of draw_cell_tracking, from the k-th trajectory on; calls
\* lists the calls of _draw_trajectory with the track they were made for
DrawTrajectories(fr, current_frame_idx, k) ==
    IF k > Len(trajectories) THEN fr
    ELSE LET info == trajectories[k]
             pts  == PointsToDraw(info, current_frame_idx)
         IN  IF info.max_frame < current_frame_idx
             THEN DrawTrajectories(fr, current_frame_idx, k + 1)
             ELSE DrawTrajectories(
                    DrawTrajectory(
                        [fr EXCEPT !.calls = Append(@,
                            [track_id |-> info.track_id, points |-> pts])],
                        pts, info.color),
                    current_frame_idx, k + 1)

RECURSIVE DrawLabels(_, _, _)
\* _draw_labels: a filled circle per row, and its track id if a colour is set
DrawLabels(fr, points_in_frame, color) ==
    IF points_in_frame = <<>> THEN fr
    ELSE LET row == Head(points_in_frame)
             m   == [fr EXCEPT !.markers = Append(@,
                        [x |-> row.x, y |-> row.y, color |-> color])]
             t   == IF track_id_color # <<>>
                    THEN [m EXCEPT !.texts = Append(@,
                            [text  |-> row.track_id[1],
                             x     |-> row.x + TEXT_OFFSET_X,
                             y     |-> row.y - TEXT_OFFSET_Y,
                             color |-> track_id_color[1]])]
                    ELSE m
         IN  DrawLabels(t, Tail(points_in_frame), color)

\* info['data'][info['data']['frame_y'] == current_frame_idx]
PointsInFrame(data, current_frame_idx) ==
    SelectSeq(data.rows, LAMBDA r : r.frame_y = current_frame_idx)

\* the lookups of draw_cell_tracking and _draw_labels that raise for one
\* label set: a missing column (KeyError), int() of a missing track id
LabelsRaise(data, current_frame_idx) ==
    \/ "frame_y" \notin data.cols
    \/ /\ PointsInFrame(data, current_frame_idx) # <<>>
       /\ \/ ~({"x", "y", "track_id"} \subseteq data.cols)
          \/ /\ track_id_color # <<>>
             /\ \E r \in Range(PointsInFrame(data, current_frame_idx)) :
                    r.track_id = <<>>

RECURSIVE DrawAllLabels(_, _, _)
\* the second loop of draw_cell_tracking, from the k-th label set on
DrawAllLabels(fr, current_frame_idx, k) ==
    IF k > Len(cell_labels) THEN fr
    ELSE DrawAllLabels(
            DrawLabels(fr,
                PointsInFrame(cell_labels[k].data, current_frame_idx),
                cell_labels[k].color),
            current_frame_idx, k + 1)

\* draw_cell_tracking on a frame no lookup raises for
DrawCellTrackingOn(fr, current_frame_idx) ==
    DrawAllLabels(DrawTrajectories(fr, current_frame_idx, 1),
                  current_frame_idx, 1)

-----------------------------------------------------------------------------
(* MetaDataDrawer *)

SCALE_OFFSET_X == 60

SCALE_LENGTH_UM == 5

\* DrawTime with the timestamp drawn only next to a scale bar
DrawTime_NeedsScale(fr, current_frame_idx) ==
    IF metadata.time_between_frames.t # "null" /\ metadata.pixel_size.t # "null"
    THEN [fr EXCEPT !.time =
            <<(current_frame_idx * metadata.time_between_frames.num)
                \div metadata.time_between_frames.den>>]
    ELSE fr

\* _draw_time: the seconds written on the frame
DrawTime(fr, current_frame_idx) ==
    IF metadata.time_between_frames.t # "null"
    THEN [fr EXCEPT !.time =
            <<(current_frame_idx * metadata.time_between_frames.num)
                \div metadata.time_between_frames.den>>]
    ELSE fr

\* Python's a // b for b > 0: the quotient rounded down
FloorDiv(a, b) == a \div b

Max(a, b) == IF a > b THEN a ELSE b

\* _draw_scale: the x of the label, text_size[0] being text_width
TextX(scale_x_end) ==
    Min(Max(0, scale_x_end - FloorDiv(text_width, 2)),
        frame_width - text_width)

\* _draw_scale: SCALE_LENGTH_UM / self.pixel_size raises ZeroDivisionError
DrawScaleRaises == metadata.pixel_size.t # "null" /\ metadata.pixel_size.num = 0

\* DrawScale with the line drawn at its nominal length, however short
DrawScale_NoFloor(fr) ==
    IF metadata.pixel_size.t # "null"
    THEN LET len_px == (SCALE_LENGTH_UM * metadata.pixel_size.den)
                            \div metadata.pixel_size.num
             x_end  == frame_width - SCALE_OFFSET_X
         IN  [fr EXCEPT !.scale =
                <<[x_start |-> frame_width - len_px - SCALE_OFFSET_X,
                   x_end   |-> x_end,
                   label   |-> <<SCALE_LENGTH_UM, "um">>,
                   text_x  |-> TextX(x_end)]>>]
    ELSE fr

\* _draw_scale: the end points of the scale line, the text of its label
\* and the x the text is put at
DrawScale(fr) ==
    IF metadata.pixel_size.t # "null"
    THEN LET len_px  == (SCALE_LENGTH_UM * metadata.pixel_size.den)
                            \div metadata.pixel_size.num
             x_start == frame_width - len_px - SCALE_OFFSET_X
             x_end   == frame_width - SCALE_OFFSET_X
             x_end2  == IF (x_end - x_start) * 10 < frame_width
                        THEN x_start + (frame_width \div 10)
                        ELSE x_end
         IN  [fr EXCEPT !.scale =
                <<[x_start |-> x_start,
                   x_end   |-> x_end2,
                   label   |-> <<SCALE_LENGTH_UM, "um">>,
                   text_x  |-> TextX(x_end2)]>>]
    ELSE fr

\* MetaDataDrawer.draw
MetaDataDraw(fr, current_frame_idx) ==
    DrawScale(DrawTime(fr, current_frame_idx))

-----------------------------------------------------------------------------
(* The inputs of a run: the configuration file and the data files *)

Red == <<255, 0, 0>>

Yellow == <<255, 255, 0>>

AllCols == {"track_id", "frame_y", "x", "y"}

\* what a key of the configuration holds when the file does not set it
Unset ==
    [alpha |-> <<>>, chunk_size |-> <<>>, output_frequency |-> <<>>,
     save_as_tiff |-> <<>>, mask_colors |-> <<>>, track_id_color |-> <<>>,
     metadata |-> <<>>, cell_labels |-> <<JArr(<<>>)>>,
     cell_trajectories |-> <<>>]

\* a gray level for every frame index, distinct for neighbouring frames
GrayOf(idx) == (40 * idx + 15) % 256

\* n grayscale frames
Originals(n) == [k \in 1..n |-> <<GrayOf(k - 1)>>]

\* n masks: the pixel is of class 1 in every other frame
Masks(n) == [k \in 1..n |-> (k - 1) % 2]

NoTable == [cols |-> AllCols, rows |-> <<>>]

NoLabelFiles == [name \in {} |-> NoTable]

\* the trajectory table with the given track ids and frames, one row each;
\* the k-th row of the file is the point (10k, 5k)
TrajTable(ids, frs) ==
    [cols |-> AllCols,
     rows |-> [k \in 1..Len(ids) |->
                [track_id |-> ids[k], frame_y |-> frs[k],
                 x |-> 10 * k, y |-> 5 * k]]]

TrajConfig == JObj([file |-> "trajectories.csv", color |-> Red])

\* the program before DataVisualizer(config_path), with its input files
\* the widths cv2.getTextSize may give the text "5 um" in the font of the
\* label: the value comes from the glyph table of the OpenCV build
TextWidths == {43, 44}

\* the text widths to tell apart for a configuration file: only a run that
\* draws a scale bar asks for the width
TextWidthsOf(file) ==
    IF /\ file.t = "obj"
       /\ "metadata" \in DOMAIN file.v
       /\ file.v.metadata.t = "obj"
       /\ "pixel_size" \in DOMAIN file.v.metadata.v
    THEN TextWidths ELSE {44}

StartFile(file, orig, msk, w, mw, tf, lf) ==
    /\ config_file = file
    /\ config = <<>>
    /\ original = orig
    /\ mask = msk
    /\ frame_width = w
    /\ mask_width = mw
    /\ traj_file = tf
    /\ label_files = lf
    /\ text_width \in TextWidthsOf(file)
    /\ pc = "new"
    /\ mask_colors = <<>>
    /\ alpha = JNull
    /\ output_frequency = JNull
    /\ track_id_color = <<>>
    /\ trajectories = <<>>
    /\ cell_labels = <<>>
    /\ metadata = JNull
    /\ chunk_size = JNull
    /\ as_tiff = JNull
    /\ width = 0
    /\ next_start = 0
    /\ start_frame = 0
    /\ end_frame = 0
    /\ frames = <<>>
    /\ i = 0
    /\ combined_frames = <<>>
    /\ processed_frame = <<>>
    /\ avi_pos = 0
    /\ files = <<>>
    /\ handoffs = <<>>
    /\ printed = <<>>

\* the program before DataVisualizer(config_path), the configuration file
\* holding the object with the members set in o
StartShapes(o, orig, msk, w, mw, tf, lf) ==
    StartFile(JObj(MkConfig(o)), orig, msk, w, mw, tf, lf)

\* the program before DataVisualizer(config_path), the masks as wide as the
\* frames
Start(o, orig, msk, w, tf, lf) == StartShapes(o, orig, msk, w, w, tf, lf)

\* runs that differ in the number of frames and in how they are chunked
InitChunks ==
    \E n \in 0..MaxFrames, m \in 0..(MaxFrames + 1),
       c \in {<<>>} \cup {<<JInt(k)>> : k \in 1..MaxChunk},
       t \in {<<>>, <<JBool(TRUE)>>},
       fq \in {<<>>, <<JInt(0)>>, <<JInt(2)>>} :
        /\ m \in {n, n + 1}
        /\ Start([Unset EXCEPT !.chunk_size = c, !.save_as_tiff = t,
                               !.output_frequency = fq,
                               !.alpha = <<JNum(1, 2)>>,
                               !.mask_colors = <<JObj([k \in {"1"} |-> Red])>>],
                 Originals(n), Masks(m), 64, NoTable, NoLabelFiles)

Grays == {0, 1, 100, 254, 255}

Classes == {0, 1, 2}

Levels == {0, 1, 255}

ColorMaps ==
    {<<>>, <<JObj([k \in {"1", "2"} |-> IF k = "1" THEN Red ELSE Yellow])>>}
    \cup {<<JObj([k \in {"1"} |-> <<r, g, b>>])>> : r \in Levels, g \in Levels,
                                                   b \in Levels}

Alphas ==
    {<<>>, <<JNull>>, <<JNum(0, 1)>>, <<JNum(1, 4)>>, <<JNum(1, 2)>>,
     <<JNum(1, 1)>>}

\* one-frame runs that differ in the pixel, its class, the colours and alpha
InitBlend ==
    \E g \in Grays, cls \in Classes, mc \in ColorMaps, a \in Alphas :
        Start([Unset EXCEPT !.mask_colors = mc, !.alpha = a],
              <<<<g>>>>, <<cls>>, 64, NoTable, NoLabelFiles)

\* runs that differ in the rows of the trajectory file
InitTraj ==
    \E m \in 0..MaxRows, cols \in {AllCols, AllCols \ {"track_id"}} :
        \E ids \in [1..m -> 1..MaxTracks], frs \in [1..m -> 0..MaxTrajFrame] :
            /\ cols # AllCols => m = 0
            /\ Start([Unset EXCEPT !.cell_trajectories = <<TrajConfig>>],
                     Originals(MaxTrajFrame + 2), Masks(MaxTrajFrame + 2), 64,
                     [TrajTable(ids, frs) EXCEPT !.cols = cols], NoLabelFiles)

\* the scenarios of the specification: 10 or 11 frames in chunks of 4 and one
\* track seen in frames 0, 3, 7 or 2, 5, 9, its rows in any order in the file
InitScenario ==
    \E n \in {10, 11}, at \in {<<0, 3, 7>>, <<2, 5, 9>>}, p \in Perms(3) :
        Start([Unset EXCEPT !.chunk_size = <<JInt(4)>>,
                            !.alpha = <<JNum(1, 2)>>,
                            !.mask_colors = <<JObj([k \in {"1"} |-> Red])>>,
                            !.cell_trajectories = <<TrajConfig>>],
              Originals(n), Masks(n), 64,
              TrajTable(<<1, 1, 1>>, [k \in 1..3 |-> at[p[k]]]), NoLabelFiles)

LabelRows ==
    {[frame_y |-> f, x |-> 3, y |-> 4, track_id |-> t] :
        f \in 0..1, t \in {<<>>, <<7>>}}

LabelTables ==
    {[cols |-> c, rows |-> r] :
        c \in {AllCols, AllCols \ {"track_id"}, AllCols \ {"x"}},
        r \in SeqUpTo(LabelRows, MaxRows)}

Metadatas ==
    {<<>>,
     <<JObj([pixel_size |-> JNum(22, 100), time_between_frames |-> JInt(2)])>>,
     <<JObj([time_between_frames |-> JNum(1, 2)])>>,
     <<JObj([pixel_size |-> JNum(1, 10)])>>,
     <<JObj([pixel_size |-> JInt(0), time_between_frames |-> JInt(2)])>>}

\* two-frame runs that differ in the cell labels and the metadata
InitLabels ==
    \E tbl \in LabelTables, tc \in {<<>>, <<JNull>>, <<JArr(Yellow)>>},
       md \in Metadatas, c \in {<<>>, <<JInt(1)>>} :
        /\ c # <<>> => tc = <<>> /\ md = <<>>
        /\ Start([Unset EXCEPT
                  !.cell_labels = <<JArr(<<[name |-> "cells", color |-> Yellow]>>)>>,
                  !.track_id_color = tc, !.metadata = md, !.chunk_size = c],
              Originals(2), Masks(2), 64, NoTable,
              [name \in {"cells"} |-> tbl])

Widths == {32, 64}

\* runs that differ in the frame counts and the widths of the two stacks
InitShapes ==
    \E n \in 1..MaxFrames, m \in 0..MaxFrames, w \in Widths, mw \in Widths,
       c \in {<<>>, <<JInt(1)>>} :
        /\ m \in {n - 1, n}
        /\ StartShapes([Unset EXCEPT !.chunk_size = c], Originals(n), Masks(m),
                       w, mw, NoTable, NoLabelFiles)

ScaleWidths == {32, 64, 220, 230, 512, 700}

PixelSizes == {JNum(22, 100), JNum(1, 10), JNum(1, 2), JInt(5)}

\* one-frame runs that differ in the frame width and the pixel size
InitScale ==
    \E w \in ScaleWidths, ps \in PixelSizes, t \in {<<>>, <<JBool(TRUE)>>} :
        Start([Unset EXCEPT !.metadata = <<JObj([pixel_size |-> ps])>>,
                            !.save_as_tiff = t],
              Originals(1), Masks(1), w, NoTable, NoLabelFiles)

ConfigFiles ==
    {JText("Invalid JSON"), JText("{chunk_size: 2")}
    \cup {JObj(MkConfig([Unset EXCEPT !.chunk_size = c, !.save_as_tiff = t,
                                      !.alpha = a, !.cell_labels = cl])) :
            c \in {<<>>, <<JInt(2)>>},
            t \in {<<>>, <<JBool(FALSE)>>, <<JBool(TRUE)>>},
            a \in {<<>>, <<JNum(0, 1)>>},
            cl \in {<<>>, <<JArr(<<>>)>>}}

\* runs that differ in the content of the configuration file
InitConfig ==
    \E file \in ConfigFiles :
        StartFile(file, Originals(3), Masks(3), 64, 64, NoTable, NoLabelFiles)

Init ==
    \/ InitChunks
    \/ InitBlend
    \/ InitTraj
    \/ InitScenario
    \/ InitLabels
    \/ InitShapes
    \/ InitScale
    \/ InitConfig

-----------------------------------------------------------------------------
(* DataVisualizer.__init__ *)

\* dict.get(key) of the metadata object
MetaGet(obj, key) == IF key \in DOMAIN obj.v THEN obj.v[key] ELSE JNull

\* tuple(track_id_color) if track_id_color else None
TupleOrNone(v) == IF Truthy(v) THEN <<v.v>> ELSE <<>>

\* alpha if alpha else self.DEFAULT_ALPHA
AlphaOf(a) == IF Truthy(a) THEN a ELSE DEFAULT_ALPHA

\* output_frequency if output_frequency else self.DEFAULT_OUTPUT_FREQUENCY
OutputFrequencyOf(f) == IF Truthy(f) THEN f ELSE JInt(DEFAULT_OUTPUT_FREQUENCY)

\* ReadConfig with a file that is not JSON taken as an empty configuration
ReadConfig_Lenient ==
    /\ pc = "new"
    /\ config' = IF JsonRaises(config_file) THEN <<>> ELSE JsonLoad(config_file)
    /\ pc' = "init"
    /\ UNCHANGED <<config_file, data_files, fields, next_start, start_frame,
                   end_frame, frames, i, combined_frames, processed_frame,
                   avi_pos, files, handoffs, printed>>

\* ConfigLoader(config_path): self.config = self._read_config(config_path);
\* the JSONDecodeError of json.load is caught nowhere
ReadConfig ==
    /\ pc = "new"
    /\ IF JsonRaises(config_file)
       THEN pc' = "crash" /\ UNCHANGED config
       ELSE pc' = "init" /\ config' = JsonLoad(config_file)
    /\ UNCHANGED <<config_file, data_files, fields, next_start, start_frame,
                   end_frame, frames, i, combined_frames, processed_frame,
                   avi_pos, files, handoffs, printed>>

\* _load_data: self.original[0] of an empty stack raises IndexError
LoadRaises == Len(original) = 0

\* _load_data: the loop over a cell_labels that is not a list raises TypeError
CellLabelsRaise == Get("cell_labels", JNull).t # "arr"

\* LoadExits with only the frame counts of the two stacks compared
LoadExits_CountOnly == Len(original) # Len(mask)

\* _load_data: the shapes differ, ValueError is caught and the run exits
LoadExits == Len(original) # Len(mask) \/ frame_width # mask_width

\* the columns _generate_trajectories looks up in the trajectory table
TrajectoriesRaise ==
    /\ Truthy(Get("cell_trajectories", JNull))
    /\ \/ "track_id" \notin traj_file.cols
       \/ traj_file.rows # <<>> /\ ~(AllCols \subseteq traj_file.cols)

\* self.cell_labels_data, in the order of the cell_labels list
LoadCellLabels ==
    LET labels == Get("cell_labels", JNull).v
    IN  [k \in 1..Len(labels) |->
            [name  |-> labels[k].name,
             data  |-> label_files[labels[k].name],
             color |-> labels[k].color]]

Construct ==
    /\ pc = "init"
    /\ \/ /\ LoadRaises
          /\ pc' = "crash"
          /\ UNCHANGED fields
       \/ /\ ~LoadRaises /\ LoadExits
          /\ pc' = "exit"
          /\ UNCHANGED fields
       \/ /\ ~LoadRaises /\ ~LoadExits
          /\ CellLabelsRaise \/ TrajectoriesRaise
          /\ pc' = "crash"
          /\ UNCHANGED fields
       \/ /\ ~LoadRaises /\ ~LoadExits
          /\ ~CellLabelsRaise /\ ~TrajectoriesRaise
          /\ as_tiff' = Get("save_as_tiff", JBool(FALSE))
          /\ width' = frame_width
          /\ mask_colors' = Get("mask_colors", JObj(<<>>)).v
          /\ track_id_color' = TupleOrNone(Get("track_id_color", JNull))
          /\ alpha' = AlphaOf(Get("alpha", JNull))
          /\ output_frequency' = OutputFrequencyOf(Get("output_frequency", JNull))
          /\ cell_labels' = LoadCellLabels
          /\ trajectories' \in
                IF Truthy(Get("cell_trajectories", JNull))
                THEN GenerateTrajectories(traj_file.rows,
                        Get("cell_trajectories", JNull).v.color)
                ELSE {<<>>}
          /\ metadata' =
                [pixel_size |-> MetaGet(Get("metadata", JObj(<<>>)), "pixel_size"),
                 time_between_frames |->
                    MetaGet(Get("metadata", JObj(<<>>)), "time_between_frames")]
          /\ chunk_size' = Get("chunk_size", JInt(DEFAULT_CHUNK_SIZE))
          /\ pc' = "loop"
    /\ UNCHANGED <<inputs, next_start, start_frame, end_frame, frames, i,
                   combined_frames, processed_frame, avi_pos, files, handoffs,
                   printed>>

-----------------------------------------------------------------------------
(* DataVisualizer.process_data and FrameVisualizer.process_batch *)

\* len(self.original)
NumFrames == Len(original)

\* EndFrame with the end taken as the last frame of the chunk
EndFrame_Inclusive(start, size, num_frames) ==
    Min(start + size, num_frames) - 1

\* min(start_frame + self.chunk_size, num_frames)
EndFrame(start, size, num_frames) == Min(start + size, num_frames)

\* NextChunk with the range stepping one frame too far
NextChunk_Step ==
    /\ pc = "loop"
    /\ next_start < NumFrames
    /\ start_frame' = next_start
    /\ next_start' = next_start + chunk_size.num + 1
    /\ end_frame' = EndFrame(next_start, chunk_size.num, NumFrames)
    /\ i' = next_start
    /\ combined_frames' = <<>>
    /\ pc' = "frame"
    /\ UNCHANGED <<inputs, fields, frames, processed_frame, avi_pos, files,
                   handoffs, printed>>

\* the for statement takes the next value of range(0, num_frames, chunk_size)
\* and calls process_batch, which starts with an empty combined_frames;
\* frames still refers to the batch of the chunk before
NextChunk ==
    /\ pc = "loop"
    /\ next_start < NumFrames
    /\ start_frame' = next_start
    /\ next_start' = next_start + chunk_size.num
    /\ end_frame' = EndFrame(next_start, chunk_size.num, NumFrames)
    /\ i' = next_start
    /\ combined_frames' = <<>>
    /\ pc' = "frame"
    /\ UNCHANGED <<inputs, fields, frames, processed_frame, avi_pos, files,
                   handoffs, printed>>

\* range(0, num_frames, chunk_size) is exhausted
Finish ==
    /\ pc = "loop"
    /\ next_start >= NumFrames
    /\ pc' = "done"
    /\ UNCHANGED <<inputs, fields, next_start, start_frame, end_frame, frames,
                   i, combined_frames, processed_frame, avi_pos, files,
                   handoffs, printed>>

\* BeginFrame with the frame passed on to the overlays without the mask
BeginFrame_NoMask ==
    /\ pc = "frame"
    /\ i < end_frame
    /\ i < Len(original)
    /\ printed' = IF i % output_frequency.num = 0
                  THEN Append(printed, i) ELSE printed
    /\ processed_frame' = NewFrame(i, ConvertToRgb(original[i + 1]))
    /\ pc' = "track"
    /\ UNCHANGED <<inputs, fields, next_start, start_frame, end_frame, frames,
                   i, combined_frames, avi_pos, files, handoffs>>

\* BeginFrame with a frame that is announced taken from the chunk's start
BeginFrame_Coupled ==
    /\ pc = "frame"
    /\ i < end_frame
    /\ i < Len(original)
    /\ printed' = IF i % output_frequency.num = 0
                  THEN Append(printed, i) ELSE printed
    /\ processed_frame' =
            IF i % output_frequency.num = 0
            THEN NewFrame(i, ConvertToRgb(original[start_frame + 1]))
            ELSE NewFrame(i, ConvertToRgb(original[i + 1]))
    /\ pc' = "mask"
    /\ UNCHANGED <<inputs, fields, next_start, start_frame, end_frame, frames,
                   i, combined_frames, avi_pos, files, handoffs>>

\* process_batch: frame = original[i] ... frame_rgb = _convert_to_rgb(frame)
BeginFrame ==
    /\ pc = "frame"
    /\ i < end_frame
    /\ IF i >= Len(original) \/ i >= Len(mask)
       THEN \* original[i] or mask[i] raises IndexError
            /\ pc' = "crash"
            /\ UNCHANGED <<printed, processed_frame>>
       ELSE /\ printed' = IF i % output_frequency.num = 0
                          THEN Append(printed, i) ELSE printed
            /\ processed_frame' = NewFrame(i, ConvertToRgb(original[i + 1]))
            /\ pc' = "mask"
    /\ UNCHANGED <<inputs, fields, next_start, start_frame, end_frame, frames,
                   i, combined_frames, avi_pos, files, handoffs>>

\* processed_frame = self._add_mask_to_frame(frame_rgb, mask_frame)
AddMask ==
    /\ pc = "mask"
    /\ \E px \in AddMaskToFrame(processed_frame.px, mask[i + 1]) :
        processed_frame' =
            [processed_frame EXCEPT !.px = px, !.stages = Append(@, "mask")]
    /\ pc' = "track"
    /\ UNCHANGED <<inputs, fields, next_start, start_frame, end_frame, frames,
                   i, combined_frames, avi_pos, files, handoffs, printed>>

\* self.cell_tracking_drawer.draw_cell_tracking(processed_frame, i)
DrawCellTracking ==
    /\ pc = "track"
    /\ IF \E k \in 1..Len(cell_labels) : LabelsRaise(cell_labels[k].data, i)
       THEN /\ pc' = "crash"
            /\ UNCHANGED processed_frame
       ELSE /\ processed_frame' =
                [DrawCellTrackingOn(processed_frame, i)
                    EXCEPT !.stages = Append(@, "tracking")]
            /\ pc' = "meta"
    /\ UNCHANGED <<inputs, fields, next_start, start_frame, end_frame, frames,
                   i, combined_frames, avi_pos, files, handoffs, printed>>

\* self.metadata_drawer.draw(processed_frame, i)
DrawMetadata ==
    /\ pc = "meta"
    /\ IF DrawScaleRaises
       THEN /\ processed_frame' = DrawTime(processed_frame, i)
            /\ pc' = "crash"
       ELSE /\ processed_frame' =
                [MetaDataDraw(processed_frame, i)
                    EXCEPT !.stages = Append(@, "metadata")]
            /\ pc' = "append"
    /\ UNCHANGED <<inputs, fields, next_start, start_frame, end_frame, frames,
                   i, combined_frames, avi_pos, files, handoffs, printed>>

\* combined_frames.append(processed_frame), and the loop goes to the next i
AppendFrame ==
    /\ pc = "append"
    /\ combined_frames' = Append(combined_frames, processed_frame)
    /\ processed_frame' = <<>>
    /\ i' = i + 1
    /\ pc' = "frame"
    /\ UNCHANGED <<inputs, fields, next_start, start_frame, end_frame, frames,
                   avi_pos, files, handoffs, printed>>

\* process_batch returns, frames is bound to the batch, save_frames is called
ReturnBatch ==
    /\ pc = "frame"
    /\ i >= end_frame
    /\ frames' = combined_frames
    /\ combined_frames' = <<>>
    /\ handoffs' = Append(handoffs,
            [start_frame |-> start_frame, end_frame |-> end_frame,
             frames |-> Len(combined_frames)])
    /\ pc' = "save"
    /\ UNCHANGED <<inputs, fields, next_start, start_frame, end_frame, i,
                   processed_frame, avi_pos, files, printed>>

-----------------------------------------------------------------------------
(* OutputManager.save_frames *)

RECURSIVE Digits(_)
\* the decimal digits an f-string formats a natural number with
Digits(n) == IF n < 10 THEN <<n>> ELSE Digits(n \div 10) \o <<n % 10>>

\* os.path.join(output_dir, "tiff_format") and (output_dir, "avi_format")
OutputDir(fmt) == IF fmt = "tiff" THEN "tiff_format" ELSE "avi_format"

\* FileName with the chunk named by its length
FileName_ByLength(fmt, start, end) ==
    [dir  |-> OutputDir(fmt),
     base |-> <<"chunk_">> \o Digits(end - start) \o <<".", fmt>>]

\* os.path.join of the directory of the format and
\* f'chunk_{start_frame}_{end_frame}.tiff' or '.avi', character by character
FileName(fmt, start, end) ==
    [dir  |-> OutputDir(fmt),
     base |-> <<"chunk_">> \o Digits(start) \o <<"_">> \o Digits(end)
                \o <<".", fmt>>]

\* the file system after a file is created or truncated under the name
CreateFile(fs, file) ==
    IF \E k \in 1..Len(fs) : fs[k].name = file.name
    THEN [k \in 1..Len(fs) |-> IF fs[k].name = file.name THEN file ELSE fs[k]]
    ELSE Append(fs, file)

\* RgbToBgr with the channels left in the order they come in
RgbToBgr_Keep(fr) == fr

\* cv2.cvtColor(frame, cv2.COLOR_RGB2BGR)
RgbToBgr(fr) == [fr EXCEPT !.px = <<fr.px[3], fr.px[2], fr.px[1]>>]

\* _save_tiff_chunk, if save_as_tiff is set: tiff.imwrite writes the batch in
\* one call, or raises
SaveTiff ==
    /\ pc = "save"
    /\ \/ /\ Truthy(as_tiff)
          /\ files' = CreateFile(files,
                [name |-> FileName("tiff", start_frame, end_frame),
                 data |-> frames, open |-> FALSE, isOpened |-> TRUE])
          /\ pc' = "avi"
       \/ /\ Truthy(as_tiff)
          /\ pc' = "crash"
          /\ UNCHANGED files
       \/ /\ ~Truthy(as_tiff)
          /\ pc' = "avi"
          /\ UNCHANGED files
    /\ UNCHANGED <<inputs, fields, next_start, start_frame, end_frame, frames,
                   i, combined_frames, processed_frame, avi_pos, handoffs,
                   printed>>

\* a file of the name is in the output directory
FileExists(name) == \E k \in 1..Len(files) : files[k].name = name

\* _save_avi_chunk: out = cv2.VideoWriter(...).  A writer that fails to open
\* raises nothing (isOpened() is never asked); it has created no file, or it
\* leaves a file without frames behind
AviOpen ==
    /\ pc = "avi"
    /\ \/ /\ files' = CreateFile(files,
                [name |-> FileName("avi", start_frame, end_frame),
                 data |-> <<>>, open |-> TRUE, isOpened |-> TRUE])
          /\ pc' = "write"
       \/ /\ pc' = "nowrite"
          /\ UNCHANGED files
       \/ /\ files' = CreateFile(files,
                [name |-> FileName("avi", start_frame, end_frame),
                 data |-> <<>>, open |-> FALSE, isOpened |-> FALSE])
          /\ pc' = "nowrite"
    /\ avi_pos' = 0
    /\ UNCHANGED <<inputs, fields, next_start, start_frame, end_frame, frames,
                   i, combined_frames, processed_frame, handoffs, printed>>

\* out.write(bgr_frame) for the next frame of the batch
AviWrite ==
    /\ pc \in {"write", "nowrite"}
    /\ avi_pos < Len(frames)
    /\ avi_pos' = avi_pos + 1
    /\ files' =
        IF pc = "write"
        THEN [k \in 1..Len(files) |->
                IF files[k].name = FileName("avi", start_frame, end_frame)
                THEN [files[k] EXCEPT
                        !.data = Append(@, RgbToBgr(frames[avi_pos + 1]))]
                ELSE files[k]]
        ELSE files
    /\ UNCHANGED <<inputs, fields, pc, next_start, start_frame, end_frame,
                   frames, i, combined_frames, processed_frame, handoffs,
                   printed>>

\* AviRelease without out.release(): the writer stays open
AviRelease_NoRelease ==
    /\ pc \in {"write", "nowrite"}
    /\ avi_pos >= Len(frames)
    /\ pc' = IF FileExists(FileName("avi", start_frame, end_frame))
             THEN "loop" ELSE "crash"
    /\ UNCHANGED <<inputs, fields, next_start, start_frame, end_frame, frames,
                   i, combined_frames, processed_frame, avi_pos, files,
                   handoffs, printed>>

\* out.release(), then os.path.getsize(filename), which raises if no file
\* was created; save_frames returns to the loop of process_data
AviRelease ==
    /\ pc \in {"write", "nowrite"}
    /\ avi_pos >= Len(frames)
    /\ files' = [k \in 1..Len(files) |-> [files[k] EXCEPT !.open = FALSE]]
    /\ pc' = IF FileExists(FileName("avi", start_frame, end_frame))
             THEN "loop" ELSE "crash"
    /\ UNCHANGED <<inputs, fields, next_start, start_frame, end_frame, frames,
                   i, combined_frames, processed_frame, avi_pos, handoffs,
                   printed>>

-----------------------------------------------------------------------------

Next ==
    \/ ReadConfig
    \/ Construct
    \/ NextChunk
    \/ BeginFrame
    \/ AddMask
    \/ DrawCellTracking
    \/ DrawMetadata
    \/ AppendFrame
    \/ ReturnBatch
    \/ SaveTiff
    \/ AviOpen
    \/ AviWrite
    \/ AviRelease
    \/ Finish

Spec == Init /\ [][Next]_vars

\* the interpreter runs the program on: no step is put off for ever
FairSpec == Spec /\ WF_vars(Next)

-----------------------------------------------------------------------------
(* What the claims speak of *)

\* the program positions inside process_batch with a frame in the making
InFrame == pc \in {"mask", "track", "meta", "append"}

\* the program positions inside process_batch
InBatch == InFrame \/ pc = "frame"

\* the program positions inside save_frames
InSave == pc \in {"save", "avi", "write", "nowrite"}

\* the frame index the chunk loop has covered so far
Covered ==
    IF handoffs = <<>> THEN 0 ELSE handoffs[Len(handoffs)].end_frame

\* the composited frames held in memory that have been through the stage
Held(stage) ==
    Range(combined_frames) \cup Range(frames)
        \cup (IF InFrame /\ stage \in Range(processed_frame.stages)
              THEN {processed_frame} ELSE {})

CeilDiv(a, b) == (a + b - 1) \div b

-----------------------------------------------------------------------------
\* C1: the ranges handed to the sink partition [0, num_frames): the first
\* starts at 0, each next one starts where the one before ended, none is
\* empty or longer than chunk_size, a shorter one ends at num_frames and is
\* the last, and when the loop has ended the last range ends at num_frames.
ChunkPartition ==
    /\ \A k \in 1..Len(handoffs) :
        LET h == handoffs[k]
        IN  /\ h.start_frame = IF k = 1 THEN 0 ELSE handoffs[k - 1].end_frame
            /\ h.start_frame < h.end_frame
            /\ h.end_frame - h.start_frame <= chunk_size.num
            /\ h.end_frame <= NumFrames
            /\ h.end_frame - h.start_frame < chunk_size.num
                    => h.end_frame = NumFrames /\ k = Len(handoffs)
    /\ pc = "done" => Covered = NumFrames

\* a finished run of several chunks whose last chunk is the short one
ChunkPartitionWitness ==
    /\ pc = "done"
    /\ Len(handoffs) = 2
    /\ handoffs[2].end_frame - handoffs[2].start_frame < chunk_size.num
    /\ handoffs[1].end_frame - handoffs[1].start_frame = chunk_size.num

-----------------------------------------------------------------------------
-----------------------------------------------------------------------------
\* C3: unless the run is stopped by an error, the chunk loop ends, having
\* covered the frames up to num_frames in exactly ceil(num_frames /
\* chunk_size) calls of the sink; with no frame the sink is never called.
LoopTerminates ==
    /\ <>(\/ pc \in {"crash", "exit"}
          \/ /\ pc = "done"
             /\ Covered = NumFrames
             /\ Len(handoffs) = CeilDiv(NumFrames, chunk_size.num))
    /\ [](NumFrames = 0 => handoffs = <<>> /\ files = <<>>)

\* the loop has ended after two calls of the sink for four frames
LoopTerminatesWitness ==
    /\ pc = "done"
    /\ NumFrames = 4
    /\ chunk_size.num = 3
    /\ Len(handoffs) = 2

-----------------------------------------------------------------------------
\* C4: never more than chunk_size composited frames in a batch, the batch
\* handed to the sink holds end_frame - start_frame frames, and at most one
\* chunk's batch exists at a time.
OneBatchInMemory ==
    /\ pc \notin {"new", "init", "crash", "exit"} =>
        /\ Len(frames) <= chunk_size.num
        /\ Len(combined_frames) <= chunk_size.num
    /\ InSave => Len(frames) = end_frame - start_frame
    /\ frames = <<>> \/ combined_frames = <<>>

-----------------------------------------------------------------------------
\* the rows of the trajectory file that belong to the track
RowsOf(track_id) ==
    {k \in 1..Len(traj_file.rows) : traj_file.rows[k].track_id = track_id}

\* the points _draw_trajectory was called with for the track on the frame;
\* none if it was not called
VisiblePath(fr, track_id) ==
    IF \E c \in Range(fr.calls) : c.track_id = track_id
    THEN (CHOOSE c \in Range(fr.calls) : c.track_id = track_id).points
    ELSE <<>>

\* the frame index of a drawn point: every row of the file is its own point
FrameOfPoint(pt) ==
    LET k == CHOOSE n \in 1..Len(traj_file.rows) :
                <<traj_file.rows[n].x, traj_file.rows[n].y>> = pt
    IN  traj_file.rows[k].frame_y

\* the frame indices of the visible path, in the order drawn
PathFrames(fr, track_id) ==
    [j \in 1..Len(VisiblePath(fr, track_id)) |->
        FrameOfPoint(VisiblePath(fr, track_id)[j])]

\* the frames the track's rows have
TrackFrames(track_id) == {traj_file.rows[k].frame_y : k \in RowsOf(track_id)}

\* C5: on the frame of index f the path drawn for a track is empty if f is
\* past the track's last frame; otherwise it is made of the track's points of
\* frame index <= f, each once, in frame order, and is a prefix of the
\* track's sorted point list.  For a track seen in frames 2, 5, 9 the path is
\* empty at 1, through 2, 5 at 5, through 2, 5, 9 at 9 and empty at 10.
VisiblePrefix ==
    \A fr \in Held("tracking") :
        \A id \in {traj_file.rows[k].track_id : k \in 1..Len(traj_file.rows)} :
            LET path == VisiblePath(fr, id)
                last == MaxOf(TrackFrames(id))
                upto == {k \in RowsOf(id) : traj_file.rows[k].frame_y <= fr.src}
                info == CHOOSE t \in Range(trajectories) : t.track_id = id
            IN  /\ fr.src > last => path = <<>>
                /\ fr.src <= last =>
                    /\ Len(path) = Cardinality(upto)
                    /\ {path[j] : j \in 1..Len(path)} =
                        {<<traj_file.rows[k].x, traj_file.rows[k].y>> : k \in upto}
                    /\ \A a, b \in 1..Len(path) :
                        a < b => FrameOfPoint(path[a]) <= FrameOfPoint(path[b])
                    /\ \A j \in 1..Len(path) :
                        path[j] = <<info.points[j][2], info.points[j][3]>>
                /\ TrackFrames(id) = {2, 5, 9} =>
                    /\ fr.src = 1 => PathFrames(fr, id) = <<>>
                    /\ fr.src = 5 => PathFrames(fr, id) = <<2, 5>>
                    /\ fr.src = 9 => PathFrames(fr, id) = <<2, 5, 9>>
                    /\ fr.src = 10 => PathFrames(fr, id) = <<>>

\* the last batch of 11 frames with a track seen in frames 2, 5, 9: all three
\* points are drawn on frame 9 and nothing on frame 10
VisiblePrefixWitness ==
    /\ pc = "save"
    /\ NumFrames = 11
    /\ TrackFrames(1) = {2, 5, 9}
    /\ Len(frames) = 3
    /\ frames[2].src = 9
    /\ PathFrames(frames[2], 1) = <<2, 5, 9>>
    /\ Len(frames[2].lines) = 2
    /\ frames[3].src = 10
    /\ frames[3].calls = <<>>

-----------------------------------------------------------------------------
\* the end-to-end scenario: 10 frames in chunks of 4, one track seen in
\* frames 0, 3 and 7
EndToEndRun ==
    /\ NumFrames = 10
    /\ chunk_size = JInt(4)
    /\ Len(traj_file.rows) = 3
    /\ RowsOf(1) = {1, 2, 3}
    /\ TrackFrames(1) = {0, 3, 7}

\* the point the trajectory file gives for the frame
PointAt(f) ==
    LET k == CHOOSE n \in 1..Len(traj_file.rows) : traj_file.rows[n].frame_y = f
    IN  <<traj_file.rows[k].x, traj_file.rows[k].y>>

\* C6: in the end-to-end scenario the chunks handed to the sink are [0,4),
\* [4,8), [8,10) in this order; the composite of frame 5 holds the segment
\* from the point of frame 0 to the point of frame 3 and no segment that
\* touches the point of frame 7; the composite of frame 8 holds no line.
EndToEnd ==
    EndToEndRun =>
        /\ Len(handoffs) <= 3
        /\ \A k \in 1..Len(handoffs) :
            <<handoffs[k].start_frame, handoffs[k].end_frame>> =
                <<<<0, 4>>, <<4, 8>>, <<8, 10>>>>[k]
        /\ pc = "done" => Len(handoffs) = 3
        /\ \A fr \in Held("tracking") :
            /\ fr.src = 5 =>
                /\ fr.lines = <<[from |-> PointAt(0), to |-> PointAt(3),
                                 color |-> Red]>>
                /\ \A seg \in Range(fr.lines) :
                    seg.from # PointAt(7) /\ seg.to # PointAt(7)
            /\ fr.src = 8 => fr.lines = <<>>

\* the scenario has run to its end: three chunks, frame 5 in the second AVI
\* file with one segment, frame 8 in the last batch with none
EndToEndWitness ==
    /\ EndToEndRun
    /\ pc = "done"
    /\ Len(handoffs) = 3
    /\ Len(files) = 3
    /\ Len(files[2].data) = 4
    /\ files[2].data[2].src = 5
    /\ Len(files[2].data[2].lines) = 1
    /\ frames[1].src = 8
    /\ frames[1].lines = <<>>

-----------------------------------------------------------------------------
\* the pixel of the frame is of a class that has a colour in mask_colors
Mapped(idx) == \E k \in DOMAIN mask_colors : IntOfKey(k) = mask[idx + 1]

\* the RGB-normalized input frame: the gray level in each of three channels
RgbOfOriginal(idx) ==
    <<original[idx + 1][1], original[idx + 1][1], original[idx + 1][1]>>

\* C7: a frame whose pixel is of a class without a colour comes out of
\* _add_mask_to_frame equal to the RGB-normalized input frame, channel for
\* channel, whatever alpha is.
UnmappedPassThrough ==
    \A fr \in Held("mask") :
        ~Mapped(fr.src) => fr.px = RgbOfOriginal(fr.src)

\* a frame of an unmapped class has been blended with alpha = 1/2 while
\* another class has a colour
UnmappedPassThroughWitness ==
    /\ pc = "track"
    /\ DOMAIN mask_colors # {}
    /\ ~Mapped(processed_frame.src)
    /\ alpha = JNum(1, 2)
    /\ processed_frame.px = <<100, 100, 100>>

-----------------------------------------------------------------------------
\* C8: with alpha = 1.0 a pixel of a class that has a colour comes out of
\* _add_mask_to_frame as exactly that colour, in all three channels.
FullAlphaGivesColor ==
    \A fr \in Held("mask") :
        alpha = JNum(1, 1) /\ Mapped(fr.src) =>
            fr.px = MaskColorArray(RgbOfOriginal(fr.src), mask[fr.src + 1])

-----------------------------------------------------------------------------
\* C9: with alpha set to 0.0 in the configuration a pixel of a class that
\* has a colour comes out of _add_mask_to_frame unchanged.
ZeroAlphaKeepsFrame ==
    \A fr \in Held("mask") :
        /\ "alpha" \in DOMAIN config
        /\ config["alpha"] = JNum(0, 1)
        /\ Mapped(fr.src)
        => fr.px = RgbOfOriginal(fr.src)

-----------------------------------------------------------------------------
Stages == <<"rgb", "mask", "tracking", "metadata">>

\* the frames written to the output files
Written == UNION {Range(files[k].data) : k \in 1..Len(files)}

\* C10: every composited frame has been through RGB normalization, mask
\* blending, tracking overlay and metadata overlay once each, in this
\* order, and the frame in the making has been through the first of them.
StageOrder ==
    /\ \A fr \in Range(combined_frames) \cup Range(frames) \cup Written :
        fr.stages = Stages
    /\ InFrame =>
        processed_frame.stages =
            SubSeq(Stages, 1, CASE pc = "mask"   -> 1
                                [] pc = "track"  -> 2
                                [] pc = "meta"   -> 3
                                [] pc = "append" -> 4)

\* a batch whose first frame carries a marker and a time stamp is handed on
StageOrderWitness ==
    /\ pc = "save"
    /\ frames # <<>>
    /\ frames[1].markers # <<>>
    /\ frames[1].time # <<>>
    /\ frames[1].stages = Stages

-----------------------------------------------------------------------------
\* the frame stack and the mask stack differ in frame count or in frame size
ShapeMismatch == Len(original) # Len(mask) \/ frame_width # mask_width

\* C11: if the two stacks differ in frame count or in frame size the run
\* ends inside the constructor of DataVisualizer with a non-zero status: it
\* never leaves the constructor, no frame is composited, nothing is handed to
\* the sink, no file is written; the exit for the mismatch is taken in the
\* constructor only, never from inside the frame loop.
MismatchIsFatal ==
    /\ [](ShapeMismatch =>
            /\ pc \in {"new", "init", "exit", "crash"}
            /\ handoffs = <<>>
            /\ files = <<>>
            /\ frames = <<>>
            /\ combined_frames = <<>>
            /\ processed_frame = <<>>
            /\ printed = <<>>)
    /\ [][pc' = "exit" => pc = "init" /\ ShapeMismatch]_vars

\* the run has exited for masks as many as the frames but of another width
MismatchIsFatalWitness ==
    /\ pc = "exit"
    /\ Len(original) = Len(mask)
    /\ Len(original) > 1
    /\ frame_width # mask_width
    /\ handoffs = <<>>

-----------------------------------------------------------------------------
\* the rows of the trajectory table, if one is configured, or of a cell
\* label table lack a field every row must have; the track id is taken as
\* optional for labels
MissingRequiredField ==
    \/ /\ "cell_trajectories" \in DOMAIN config
       /\ Truthy(config["cell_trajectories"])
       /\ ~(AllCols \subseteq traj_file.cols)
    \/ \E name \in DOMAIN label_files :
        /\ label_files[name].rows # <<>>
        /\ ~({"frame_y", "x", "y"} \subseteq label_files[name].cols)

\* C12: with a required field missing from the rows of the trajectory table
\* or of a cell label table the run fails while loading: no frame is ever
\* composited and no chunk is handed to the sink or written.
MissingFieldFailsAtLoad ==
    MissingRequiredField =>
        /\ combined_frames = <<>>
        /\ frames = <<>>
        /\ handoffs = <<>>
        /\ files = <<>>

-----------------------------------------------------------------------------
\* a chunk after the k-th chunk handed to the sink has been started
LaterChunkStarted(k) == k < Len(handoffs) \/ InBatch

\* the AVI file of the k-th chunk handed to the sink holds all its frames
ChunkWritten(k) ==
    \E n \in 1..Len(files) :
        /\ files[n].name = FileName("avi", handoffs[k].start_frame,
                                    handoffs[k].end_frame)
        /\ Len(files[n].data) = handoffs[k].end_frame - handoffs[k].start_frame

\* C13: a chunk is composited or written only if every chunk before it was
\* written: when writing chunk k fails the run halts; and the files of the
\* chunks written before are never changed or removed afterwards.
FailedWriteHalts ==
    /\ [](\A k \in 1..Len(handoffs) : LaterChunkStarted(k) => ChunkWritten(k))
    /\ [][\A n \in 1..Len(files) :
            files[n].name \notin {FileName("avi", start_frame, end_frame),
                                  FileName("tiff", start_frame, end_frame)}
                => /\ n <= Len(files')
                   /\ files'[n] = files[n]]_vars

-----------------------------------------------------------------------------
\* C14: MetaDataDrawer.draw does not raise for absent metadata; it draws no
\* scale bar and no scale label if pixel_size is absent and a scale bar if it
\* is set, no timestamp if time_between_frames is absent and a timestamp if
\* it is set, whatever the other one is; with both absent it leaves the
\* frame as it was.
MetadataOptional ==
    [][pc = "meta" =>
        LET before == processed_frame
            after  == processed_frame'
            raised == pc' = "crash"
        IN  /\ metadata.pixel_size = JNull =>
                ~raised /\ after.scale = <<>>
            /\ metadata.pixel_size # JNull /\ ~raised =>
                after.scale # <<>> /\ after.scale[1].label # <<>>
            /\ metadata.time_between_frames = JNull => after.time = <<>>
            /\ metadata.time_between_frames # JNull => after.time # <<>>
            /\ metadata.pixel_size = JNull
                    /\ metadata.time_between_frames = JNull =>
                after = [before EXCEPT !.stages = Append(@, "metadata")]]_vars

\* MetaDataDrawer.draw has drawn the timestamp of the second frame and no
\* scale bar: time_between_frames is set, pixel_size is absent
MetadataOptionalWitness ==
    /\ pc = "append"
    /\ metadata.pixel_size = JNull
    /\ metadata.time_between_frames # JNull
    /\ processed_frame.src = 1
    /\ processed_frame.time # <<>>
    /\ processed_frame.scale = <<>>

-----------------------------------------------------------------------------
\* the nominal length of the scale bar in pixels: int(5 / pixel_size)
NominalLength ==
    (SCALE_LENGTH_UM * metadata.pixel_size.den) \div metadata.pixel_size.num

\* C15: the scale bar drawn on a frame is as long as a tenth of the frame
\* width, rounded down, whenever its nominal length int(5 / pixel_size) is
\* shorter than a tenth of the width, and as long as the nominal length
\* otherwise; for pixel_size 0.22 and width 512 it is 51 or 52 pixels long.
ScaleBarFloor ==
    \A fr \in Held("metadata") :
        fr.scale # <<>> =>
            LET drawn == fr.scale[1].x_end - fr.scale[1].x_start
            IN  /\ NominalLength * 10 < frame_width =>
                    drawn = frame_width \div 10
                /\ NominalLength * 10 >= frame_width => drawn = NominalLength
                /\ metadata.pixel_size = JNum(22, 100) /\ frame_width = 512 =>
                    drawn \in {51, 52}

\* the bar of a frame 512 wide with pixel_size 0.22 has been drawn 51 long,
\* its nominal length being 22
ScaleBarFloorWitness ==
    /\ pc = "append"
    /\ frame_width = 512
    /\ metadata.pixel_size = JNum(22, 100)
    /\ NominalLength = 22
    /\ processed_frame.scale[1].x_end - processed_frame.scale[1].x_start = 51

-----------------------------------------------------------------------------
\* the keys get is asked for, and one no configuration has
Keys == DOMAIN Unset \cup {"non_existent_key"}

\* the defaults get is called with; JNull is None, the default of default
Defaults == {JNull, JInt(DEFAULT_CHUNK_SIZE), JBool(FALSE), JNum(1, 2)}

\* C16: once the configuration is loaded, get(key, default) is the value of
\* the key in the loaded object if the key is there, whatever the default,
\* and the default otherwise, None if none is given; the fields the
\* constructor takes from get hold these values; and the loaded
\* configuration is the object of the file and never changes.
GetReturnsValueOrDefault ==
    /\ [](pc \notin {"new", "crash"} \/ config # <<>> =>
            /\ config = JsonLoad(config_file)
            /\ \A key \in Keys, default \in Defaults :
                /\ key \in DOMAIN config => Get(key, default) = config[key]
                /\ key \notin DOMAIN config => Get(key, default) = default
                /\ key \notin DOMAIN config => Get(key, JNull) = JNull
            /\ pc \notin {"new", "init", "crash", "exit"} =>
                /\ chunk_size = IF "chunk_size" \in DOMAIN config
                                THEN config["chunk_size"]
                                ELSE JInt(DEFAULT_CHUNK_SIZE)
                /\ as_tiff = IF "save_as_tiff" \in DOMAIN config
                             THEN config["save_as_tiff"]
                             ELSE JBool(FALSE))
    /\ [][pc # "new" => config' = config]_vars

\* the constructor has taken chunk_size from the configuration, which has
\* it, and the default of save_as_tiff, which the configuration lacks, and a
\* key of the configuration holds a falsy value
GetReturnsValueOrDefaultWitness ==
    /\ pc = "loop"
    /\ "chunk_size" \in DOMAIN config
    /\ chunk_size = JInt(2)
    /\ "save_as_tiff" \notin DOMAIN config
    /\ as_tiff = JBool(FALSE)
    /\ "alpha" \in DOMAIN config
    /\ ~Truthy(config["alpha"])

-----------------------------------------------------------------------------
\* the fields of the objects the constructors build are still unset
NothingBuilt ==
    /\ config = <<>>
    /\ mask_colors = <<>>
    /\ alpha = JNull
    /\ output_frequency = JNull
    /\ trajectories = <<>>
    /\ cell_labels = <<>>
    /\ metadata = JNull
    /\ chunk_size = JNull
    /\ as_tiff = JNull

\* C17: with a configuration file that does not hold JSON the run ends in
\* the constructor of ConfigLoader with the decode error: no configuration
\* is loaded, not even in part, no later stage starts, no frame is
\* composited and nothing is written.
InvalidJsonRaises ==
    JsonRaises(config_file) =>
        /\ pc \in {"new", "crash"}
        /\ NothingBuilt
        /\ frames = <<>>
        /\ combined_frames = <<>>
        /\ processed_frame = <<>>
        /\ handoffs = <<>>
        /\ files = <<>>
        /\ printed = <<>>

\* the run has ended on a configuration file that is not JSON
InvalidJsonRaisesWitness ==
    /\ pc = "crash"
    /\ JsonRaises(config_file)
    /\ config_file.v = "Invalid JSON"
    /\ NothingBuilt

-----------------------------------------------------------------------------
\* the output frequency in effect: the configured one, 100 if it is unset,
\* null or 0
EffectiveFrequency ==
    IF "output_frequency" \in DOMAIN config /\ Truthy(config["output_frequency"])
    THEN config["output_frequency"].num
    ELSE DEFAULT_OUTPUT_FREQUENCY

\* the number of frames process_batch has taken up so far
Begun == i + (IF processed_frame # <<>> THEN 1 ELSE 0)

\* the composites the frame of the index can get; they are made from the
\* frames, the masks, the tables and the configuration without its
\* output_frequency
Composites(idx) ==
    {[MetaDataDraw(
        DrawCellTrackingOn(
            [NewFrame(idx, ConvertToRgb(original[idx + 1])) EXCEPT !.px = px],
            idx),
        idx) EXCEPT !.stages = Stages] :
        px \in AddMaskToFrame(ConvertToRgb(original[idx + 1]), mask[idx + 1])}

\* the first frame index of the chunk a file is named after
StartOfFile(file) ==
    CHOOSE st \in 0..NumFrames :
        \E en \in 0..NumFrames, fmt \in {"avi", "tiff"} :
            file.name = FileName(fmt, st, en)

\* C18: the chunks handed to the sink, the composited frames of each chunk
\* and the frames in the files are what the frames, the masks, the tables
\* and the configuration without output_frequency make them, so that runs
\* differing in output_frequency only agree on them; the progress message
\* has been printed for exactly the frames taken up so far whose index is a
\* multiple of the effective output frequency, in this order.
ProgressOnly ==
    /\ \A k \in 1..Len(handoffs) :
        /\ handoffs[k].start_frame = (k - 1) * chunk_size.num
        /\ handoffs[k].end_frame = Min(k * chunk_size.num, NumFrames)
        /\ handoffs[k].frames = handoffs[k].end_frame - handoffs[k].start_frame
    /\ \A fr \in Range(combined_frames) \cup Range(frames) :
        fr \in Composites(fr.src)
    /\ \A n \in 1..Len(files) :
        \A j \in 1..Len(files[n].data) :
            \E c \in Composites(StartOfFile(files[n]) + j - 1) :
                files[n].data[j] = IF files[n].name.dir = OutputDir("avi")
                                   THEN RgbToBgr(c) ELSE c
    /\ printed = SelectSeq([k \in 1..Begun |-> k - 1],
                           LAMBDA f : f % EffectiveFrequency = 0)

\* a run of four frames with output_frequency 2 has ended: the message was
\* printed for the frames 0 and 2 and the chunks were handed over
ProgressOnlyWitness ==
    /\ pc = "done"
    /\ NumFrames = 4
    /\ "output_frequency" \in DOMAIN config
    /\ config["output_frequency"] = JInt(2)
    /\ printed = <<0, 2>>
    /\ Len(handoffs) = 2
    /\ Len(files) = 4

-----------------------------------------------------------------------------
\* the constructor of DataVisualizer has built its objects
Constructed == metadata # JNull

\* the point _generate_trajectories makes of the k-th row of the file
PointOfRow(k) ==
    <<traj_file.rows[k].frame_y, traj_file.rows[k].x, traj_file.rows[k].y>>

\* C19: after _generate_trajectories every row of the trajectory table is a
\* point of exactly one track, the one of its track_id, and a track has no
\* other points; the points of a track are in ascending frame order; and
\* max_frame of a track is the largest frame of its points, which is the
\* frame of its last point.
TrajectoriesGrouped ==
    Constructed /\ Truthy(Get("cell_trajectories", JNull)) =>
        /\ \A k \in 1..Len(traj_file.rows) :
            \E n \in 1..Len(trajectories) :
                /\ trajectories[n].track_id = traj_file.rows[k].track_id
                /\ \A m \in 1..Len(trajectories) :
                    (\E j \in 1..Len(trajectories[m].points) :
                        trajectories[m].points[j] = PointOfRow(k)) <=> m = n
        /\ \A n \in 1..Len(trajectories) :
            LET t == trajectories[n]
            IN  /\ t.points # <<>>
                /\ Len(t.points) = Cardinality(RowsOf(t.track_id))
                /\ \A a, b \in 1..Len(t.points) :
                    a < b => t.points[a][1] <= t.points[b][1]
                /\ \A j \in 1..Len(t.points) : t.points[j][1] <= t.max_frame
                /\ t.max_frame = t.points[Len(t.points)][1]

\* two rows of one track, the later frame first in the file, have been
\* grouped into one track with its points in frame order
TrajectoriesGroupedWitness ==
    /\ pc = "loop"
    /\ Len(traj_file.rows) = 2
    /\ traj_file.rows[1].track_id = traj_file.rows[2].track_id
    /\ traj_file.rows[1].frame_y > traj_file.rows[2].frame_y
    /\ Len(trajectories) = 1
    /\ trajectories[1].points = <<PointOfRow(2), PointOfRow(1)>>
    /\ trajectories[1].max_frame = traj_file.rows[1].frame_y

-----------------------------------------------------------------------------
\* the colour of the track: the one configured for the trajectories
ColorOfTrack(track_id) ==
    (CHOOSE t \in Range(trajectories) : t.track_id = track_id).color

\* the segments (p1, p2), (p2, p3), ... of a path, in the given colour
SegmentsOf(points, color) ==
    [k \in 1..(Len(points) - 1) |->
        [from |-> points[k], to |-> points[k + 1], color |-> color]]

RECURSIVE SegmentsOfCalls(_)
\* the segments of the paths _draw_trajectory was called with, call by call
SegmentsOfCalls(calls) ==
    IF calls = <<>> THEN <<>>
    ELSE SegmentsOf(Head(calls).points, ColorOfTrack(Head(calls).track_id))
            \o SegmentsOfCalls(Tail(calls))

\* C20: the lines on a frame are, call by call of _draw_trajectory, the n - 1
\* segments (p_i, p_i+1) of the visible path p1..pn, in this order and in the
\* colour of the track, if n >= 2, and none if n is 1 or 0; _draw_trajectory
\* draws nothing else.
PolylineSegments ==
    \A fr \in Held("tracking") \cup Written :
        /\ fr.lines = SegmentsOfCalls(fr.calls)
        /\ \A c \in Range(fr.calls) :
            Len(c.points) < 2 => SegmentsOf(c.points, Red) = <<>>
        /\ cell_labels = <<>> => fr.markers = <<>> /\ fr.texts = <<>>

\* the run of 11 frames with a track seen in frames 2, 5 and 9 has ended:
\* frame 0 was drawn with a path of no point, frame 2 with a path of one
\* point, both without a line, and frame 9 with the two segments of its
\* three points
PolylineSegmentsWitness ==
    /\ pc = "done"
    /\ NumFrames = 11
    /\ TrackFrames(1) = {2, 5, 9}
    /\ Len(files) = 3
    /\ Len(files[1].data) = 4
    /\ Len(files[3].data) = 3
    /\ files[1].data[1].calls[1].points = <<>>
    /\ files[1].data[1].lines = <<>>
    /\ Len(files[1].data[3].calls[1].points) = 1
    /\ files[1].data[3].lines = <<>>
    /\ Len(files[3].data[2].calls[1].points) = 3
    /\ files[3].data[2].lines =
        <<[from |-> PointAt(2), to |-> PointAt(5), color |-> Red],
          [from |-> PointAt(5), to |-> PointAt(9), color |-> Red]>>

-----------------------------------------------------------------------------
\* the rows of a label table that belong to frame f
RowsOfFrame(data, f) == SelectSeq(data.rows, LAMBDA r : r.frame_y = f)

RECURSIVE MarkersDue(_, _)
\* one marker for each row of frame f, label set by label set from the k-th
MarkersDue(f, k) ==
    IF k > Len(cell_labels) THEN <<>>
    ELSE LET rows == RowsOfFrame(cell_labels[k].data, f)
         IN  [n \in 1..Len(rows) |->
                [x |-> rows[n].x, y |-> rows[n].y,
                 color |-> cell_labels[k].color]]
             \o MarkersDue(f, k + 1)

RECURSIVE TextsDue(_, _)
\* the track id of each row of frame f that carries one, if a track id
\* colour is configured
TextsDue(f, k) ==
    IF k > Len(cell_labels) THEN <<>>
    ELSE LET rows == SelectSeq(RowsOfFrame(cell_labels[k].data, f),
                        LAMBDA r : track_id_color # <<>> /\ r.track_id # <<>>)
         IN  [n \in 1..Len(rows) |-> rows[n].track_id[1]]
             \o TextsDue(f, k + 1)

\* every label table has the fields frame index, x and y
LabelFieldsPresent ==
    \A k \in 1..Len(cell_labels) :
        {"frame_y", "x", "y"} \subseteq cell_labels[k].data.cols

\* C21: draw_cell_tracking on frame f draws one marker for each label row of
\* frame f and for no other row, and the track id of a row as text exactly
\* when a track id colour is configured and the row carries a track id;
\* label sets whose rows carry no track id (no track_id field, or an empty
\* one) are drawn with markers only and raise nothing.
LabelsDrawn ==
    [][pc = "track" /\ LabelFieldsPresent =>
        /\ pc' = "meta"
        /\ processed_frame'.markers = MarkersDue(i, 1)
        /\ [n \in 1..Len(processed_frame'.texts) |->
                processed_frame'.texts[n].text] = TextsDue(i, 1)]_vars

-----------------------------------------------------------------------------
\* the x _draw_scale computes for the label before it clamps it
UnclampedTextX(s) == s.x_end - FloorDiv(text_width, 2)

\* the clamp of _draw_scale changes the x of the label
ClampApplies(s) == s.text_x # UnclampedTextX(s)

\* C22: the label of the scale bar is centred on the bar, the centre of the
\* text being the midpoint of scale_x_start and scale_x_end up to rounding,
\* unless the clamp applies; and the text, from text_x to
\* text_x + text_width, lies within the frame, from 0 to the frame width.
ScaleLabelCentred ==
    \A fr \in Held("metadata") :
        fr.scale # <<>> =>
            LET s == fr.scale[1]
                off == (2 * s.text_x + text_width) - (s.x_start + s.x_end)
            IN  /\ ~ClampApplies(s) => off \in -2..2
                /\ 0 <= s.text_x
                /\ s.text_x + text_width <= frame_width

-----------------------------------------------------------------------------
\* save_frames has returned for the k-th chunk handed to the sink
Saved(k) == k < Len(handoffs) \/ (~InSave /\ pc # "crash")

\* the files of a name
FilesNamed(name) == {n \in 1..Len(files) : files[n].name = name}

\* the names save_frames gives the files of the k-th chunk handed to the sink
NameOfChunk(fmt, k) ==
    FileName(fmt, handoffs[k].start_frame, handoffs[k].end_frame)

\* C23: the file names of a chunk are those of its bounds (start, end), and
\* the chunks of a run have distinct names in each format; a chunk that has
\* been saved has exactly one AVI file and, if and only if save_as_tiff is
\* set, exactly one TIFF file, which was created before the AVI file, and
\* there are no other files; a step that writes for one chunk leaves the
\* files of every other chunk as they are.
OneFilePerChunk ==
    /\ [](\A j, k \in 1..Len(handoffs) : \A f, g \in {"avi", "tiff"} :
            NameOfChunk(f, j) = NameOfChunk(g, k) => j = k /\ f = g)
    /\ [](\A k \in 1..Len(handoffs) :
            Saved(k) =>
                /\ Cardinality(FilesNamed(NameOfChunk("avi", k))) = 1
                /\ Cardinality(FilesNamed(NameOfChunk("tiff", k))) =
                        IF Truthy(as_tiff) THEN 1 ELSE 0
                /\ \A t \in FilesNamed(NameOfChunk("tiff", k)) :
                    \A a \in FilesNamed(NameOfChunk("avi", k)) : t < a)
    /\ [](\A n \in 1..Len(files) :
            \E k \in 1..Len(handoffs), f \in {"avi", "tiff"} :
                files[n].name = NameOfChunk(f, k))
    /\ [][/\ Len(files') >= Len(files)
          /\ \A n \in 1..Len(files) :
                /\ files'[n].name = files[n].name
                /\ files[n].name \notin
                        {NameOfChunk(f, Len(handoffs)) : f \in {"avi", "tiff"}}
                    => files'[n] = files[n]]_vars

\* a run with save_as_tiff set has ended after three chunks: six files, the
\* TIFF file and then the AVI file of each chunk in the order of the chunks
OneFilePerChunkWitness ==
    /\ pc = "done"
    /\ Truthy(as_tiff)
    /\ Len(handoffs) = 3
    /\ Len(files) = 6
    /\ \A k \in 1..3 :
        /\ files[2 * k - 1].name = NameOfChunk("tiff", k)
        /\ files[2 * k].name = NameOfChunk("avi", k)
        /\ Len(files[2 * k].data) = handoffs[k].frames

-----------------------------------------------------------------------------
\* the pixel with its first and third channel swapped
Swapped(px) == <<px[3], px[2], px[1]>>

\* the RGB values compositing can give the pixel of frame idx
RgbOfFrame(idx) ==
    AddMaskToFrame(ConvertToRgb(original[idx + 1]), mask[idx + 1])

\* C24: a frame is in RGB order from mask blending on, in the batch in the
\* making and in the batch handed to the sink; the frames of a TIFF file are
\* the frames of the batch as they are, in RGB order; the frames of an AVI
\* file are the frames of the batch with the first and third channel
\* swapped, once; and saving, in either format or both, leaves the frames of
\* the batch unchanged.
ChannelOrder ==
    /\ [](\A fr \in Held("mask") : fr.px \in RgbOfFrame(fr.src))
    /\ [](\A n \in 1..Len(files) : \A j \in 1..Len(files[n].data) :
            LET fr == files[n].data[j]
            IN  IF files[n].name.dir = OutputDir("tiff")
                THEN fr.px \in RgbOfFrame(fr.src)
                ELSE Swapped(fr.px) \in RgbOfFrame(fr.src))
    /\ [](InSave =>
            \A n \in 1..Len(files) :
                /\ files[n].name = FileName("tiff", start_frame, end_frame)
                    => files[n].data = frames
                /\ files[n].name = FileName("avi", start_frame, end_frame)
                    => \A j \in 1..Len(files[n].data) :
                            files[n].data[j] =
                                [frames[j] EXCEPT !.px = Swapped(@)])
    /\ [][InSave => frames' = frames]_vars

\* the AVI file of a chunk of two frames saved in both formats is released:
\* its second frame, of a pixel blended with red, and the second frame of
\* the TIFF file differ, the one being the other with the first and third
\* channel swapped, and the TIFF frame is the frame of the batch
ChannelOrderWitness ==
    /\ pc = "loop"
    /\ Truthy(as_tiff)
    /\ Len(files) = 2
    /\ Len(frames) = 2
    /\ Len(files[2].data) = 2
    /\ files[1].name = FileName("tiff", 0, 2)
    /\ files[1].data[2] = frames[2]
    /\ frames[2].px[1] > frames[2].px[3]
    /\ files[2].data[2].px = Swapped(frames[2].px)
    /\ files[2].data[2].px # frames[2].px

-----------------------------------------------------------------------------
\* C25: both end points of the scale bar drawn on a frame lie inside the
\* frame horizontally, 0 <= scale_x_start <= scale_x_end <= frame width,
\* for every frame width and every pixel size above 0, also when the bar was
\* made as long as a tenth of the width.
ScaleBarInFrame ==
    \A fr \in Held("metadata") :
        fr.scale # <<>> /\ metadata.pixel_size.num > 0 =>
            /\ 0 <= fr.scale[1].x_start
            /\ fr.scale[1].x_start <= fr.scale[1].x_end
            /\ fr.scale[1].x_end <= frame_width

====
